---- MODULE Spec2Model ----
(***************************************************************************)
(* The blog-index build of the site: getStaticProps (pages/blog/index.js)  *)
(* calls getSortedPosts (utils/posts.js) and then generateRssFeed          *)
(* (utils/feed.js).  The posts directory, the post list, the feed object   *)
(* and the three feed files under ./public are the state.                  *)
(*                                                                         *)
(* Strings whose characters matter (the tags field) are sequences of       *)
(* one-character strings; file names are sequences of tokens whose last    *)
(* token is the extension; other strings are atoms.  A JavaScript object   *)
(* is a function whose domain is the set of its keys, so that reading a    *)
(* key that is not there gives Undefined.                                  *)
(***************************************************************************)
EXTENDS Integers, Sequences, FiniteSets, TLC

\* ------------------------------------------------------------- bounds
\* At most this many files in the posts directory.
MaxPosts == 3
\* Longest tags string of the tag-parsing specification.
MaxTagLen == 4
\* The last instant of the clock, and the number of builds, of the
\* specification that builds the site more than once.
MaxClock == 2
MaxBuilds == 2
MaxEvents == 3

\* ------------------------------------------------------ JavaScript values
Undefined == "<undefined>"

\* obj.key on an object: the value, or undefined when the key is absent.
Get(obj, key) == IF key \in DOMAIN obj THEN obj[key] ELSE Undefined

\* The object without one of its keys.
Without(obj, key) == [k \in DOMAIN obj \ {key} |-> obj[k]]

\* The date strings of the model, in increasing code-unit order (digits sort
\* before letters).  The first three are ISO-8601 calendar dates; "soon" is a
\* string that Date cannot parse.
DateStrings == <<"2024-01-01", "2024-06-01", "2025-01-01", "soon">>
IsoDates == {"2024-01-01", "2024-06-01", "2025-01-01"}

StrIndex(s) == CHOOSE i \in 1..Len(DateStrings) : DateStrings[i] = s

\* a < b on two strings: code-unit order.
StrLess(a, b) == StrIndex(a) < StrIndex(b)

\* a < b as JavaScript evaluates it on a string or undefined: undefined
\* converts to NaN and every comparison with NaN is false.
JsLess(a, b) == a # Undefined /\ b # Undefined /\ StrLess(a, b)

\* ------------------------------------------------------------ tag strings
Chars == {"p", "t", " ", ","}

\* String.prototype.split(sep) with a one-character separator.
RECURSIVE split(_, _)
split(str, sep) ==
    IF \A i \in 1..Len(str) : str[i] # sep
    THEN <<str>>
    ELSE LET k == CHOOSE i \in 1..Len(str) :
                      str[i] = sep /\ \A j \in 1..(i - 1) : str[j] # sep
         IN  <<SubSeq(str, 1, k - 1)>> \o split(SubSeq(str, k + 1, Len(str)), sep)

RECURSIVE trimStart(_)
trimStart(str) ==
    IF str # <<>> /\ Head(str) = " " THEN trimStart(Tail(str)) ELSE str

RECURSIVE trimEnd(_)
trimEnd(str) ==
    IF str # <<>> /\ str[Len(str)] = " "
    THEN trimEnd(SubSeq(str, 1, Len(str) - 1))
    ELSE str

\* String.prototype.trim.
trim(str) == trimEnd(trimStart(str))

\* A plausible slip: the pieces are not trimmed.
parseTagsUntrimmed(text) == split(text, ",")

\* parsed.data.tags.split(",").map((tag) => tag.trim())
parseTags(text) ==
    LET pieces == split(text, ",")
    IN  [i \in 1..Len(pieces) |-> trim(pieces[i])]

\* --------------------------------------------------------- the post files
\* File names are <<stem, extension>>; one stem per directory position, so the
\* names of a directory are distinct, as a file system keeps them.
Stems == <<"a", "b", "c", "d", "e">>
Titles == <<"A", "B", "C", "D", "E">>
Summaries == <<"about A", "about B", "about C", "about D", "about E">>
TagTexts ==
    << <<"p", ",", " ", "t">>, <<"t">>, <<"p", ",", "p">>, <<" ", "t", " ">>, <<>> >>

\* The metadata a well-formed post at position i carries, with date d.
FullFields(i, d) ==
    [date |-> d, title |-> Titles[i], summary |-> Summaries[i], tags |-> TagTexts[i]]

\* The metadata blocks of the model for position i: every date with all other
\* fields present, and a valid date with one field absent or a thumbnail given
\* (a path, or the empty string).
FieldChoices(i) ==
    {FullFields(i, DateStrings[k]) : k \in 1..Len(DateStrings)}
        \cup {Without(FullFields(i, DateStrings[1]), key) :
                  key \in {"date", "title", "summary", "tags"}}
        \cup {FullFields(i, DateStrings[2]) @@ [thumbnail |-> t] :
                  t \in {"/images/own.png", ""}}

\* What may sit at position i of the posts directory: a Markdown file whose
\* metadata block is delimited by --- lines, one delimited by +++ lines, one
\* with no metadata block, or a file that is not Markdown; at the first
\* position also a file whose whole name is ".md".
FileChoices(i) ==
    {[name |-> <<Stems[i], ".md">>, delim |-> "---", fields |-> f] :
         f \in FieldChoices(i)}
        \cup {[name |-> <<Stems[i], ".md">>, delim |-> dl,
               fields |-> FullFields(i, DateStrings[1])] : dl \in {"+++", "none"}}
        \cup {[name |-> <<Stems[i], ".txt">>, delim |-> "---",
               fields |-> FullFields(i, DateStrings[1])]}
        \cup (IF i = 1
              THEN {[name |-> <<".md">>, delim |-> "---",
                     fields |-> FullFields(i, DateStrings[1])]}
              ELSE {})

\* filename.endsWith(".md")
endsWithMd(filename) == Len(filename) >= 1 /\ filename[Len(filename)] = ".md"

\* filename.replace(/\.md$/, "")
stripMd(filename) ==
    IF endsWithMd(filename) THEN SubSeq(filename, 1, Len(filename) - 1) ELSE filename

\* Array.prototype.filter
RECURSIVE SelectNames(_)
SelectNames(files) ==
    IF files = <<>> THEN <<>>
    ELSE (IF endsWithMd(Head(files).name) THEN <<Head(files).name>> ELSE <<>>)
             \o SelectNames(Tail(files))

\* getPostPaths: the names readdirSync returns that end with ".md", in the
\* order of the enumeration.
getPostPaths(files) == SelectNames(files)

\* readFileSync(path.join("posts", id + ".md")) on the directory.
readFile(files, filename) ==
    LET k == CHOOSE i \in 1..Len(files) : files[i].name = filename
    IN  files[k]

\* matter(raw) with its default options: the data of a block delimited by ---
\* lines; any other file has no recognized block and gives the empty object.
matter(file) == IF file.delim = "---" THEN file.fields ELSE <<>>

\* A plausible slip: the metadata's value is passed on without the fallback.
thumbnailAsGiven(thumbnail) == thumbnail

\* thumbnail ? thumbnail : "/images/clouds.jpeg"
thumbnailOrDefault(thumbnail) ==
    IF thumbnail # Undefined /\ thumbnail # "" THEN thumbnail ELSE "/images/clouds.jpeg"

\* The map callback of getSortedPosts throws a TypeError exactly when
\* parsed.data.tags is undefined (undefined has no split).
mapThrows(files, filename) ==
    "tags" \notin DOMAIN matter(readFile(files, stripMd(filename) \o <<".md">>))

\* The record the map callback of getSortedPosts returns for one file name.
postOf(files, filename) ==
    LET id == stripMd(filename)
        data == matter(readFile(files, id \o <<".md">>))
    IN  [id |-> id,
         date |-> Get(data, "date"),
         title |-> Get(data, "title"),
         summary |-> Get(data, "summary"),
         tags |-> parseTags(data.tags),
         thumbnail |-> thumbnailOrDefault(Get(data, "thumbnail"))]

\* ------------------------------------------------------------- the sort
\* A plausible slip: equal dates are ordered by title.
compareFnTitleTie(a, b) ==
    LET rank(t) == IF \E i \in 1..Len(Titles) : Titles[i] = t
                   THEN CHOOSE i \in 1..Len(Titles) : Titles[i] = t
                   ELSE 0
    IN  IF JsLess(a.date, b.date) THEN 1
        ELSE IF a.date = b.date /\ rank(a.title) < rank(b.title) THEN 1
        ELSE -1

\* (a, b) => (a.date < b.date ? 1 : -1): never 0, also for equal dates.
compareFn(a, b) == IF JsLess(a.date, b.date) THEN 1 ELSE -1

\* The comparator never answers 0, so ECMAScript leaves the order of equal
\* dates to the engine.  The build runs on Node, whose Array.prototype.sort is
\* V8's TimSort: for an array shorter than 64 elements it finds the run at
\* the start (CountAndMakeRun), reverses it when it is strictly descending
\* by the comparator, and inserts each later element by binary insertion.

\* The length of the run of arr that starts at index 1, idx being the next
\* index to look at.
RECURSIVE RunLength(_, _, _)
RunLength(arr, idx, isDescending) ==
    IF idx > Len(arr) THEN Len(arr)
    ELSE LET order == compareFn(arr[idx], arr[idx - 1])
         IN  IF (isDescending /\ order >= 0) \/ (~isDescending /\ order < 0)
             THEN idx - 1
             ELSE RunLength(arr, idx + 1, isDescending)

Reverse(arr) == [i \in 1..Len(arr) |-> arr[Len(arr) + 1 - i]]

\* The insertion point of pivot in the sorted range [left, right).
RECURSIVE FindSlot(_, _, _, _)
FindSlot(arr, pivot, left, right) ==
    IF left >= right THEN left
    ELSE LET mid == left + ((right - left) \div 2)
         IN  IF compareFn(pivot, arr[mid]) < 0
             THEN FindSlot(arr, pivot, left, mid)
             ELSE FindSlot(arr, pivot, mid + 1, right)

\* Binary insertion of arr[start..], arr[1..start-1] being sorted.
RECURSIVE BinaryInsertionSort(_, _)
BinaryInsertionSort(arr, start) ==
    IF start > Len(arr) THEN arr
    ELSE LET pivot == arr[start]
             slot == FindSlot(arr, pivot, 1, start)
             moved == SubSeq(arr, 1, slot - 1) \o <<pivot>>
                          \o SubSeq(arr, slot, start - 1)
                          \o SubSeq(arr, start + 1, Len(arr))
         IN  BinaryInsertionSort(moved, start + 1)

\* .sort((a, b) => (a.date < b.date ? 1 : -1))
sortPosts(arr) ==
    IF Len(arr) < 2 THEN arr
    ELSE LET isDescending == compareFn(arr[2], arr[1]) < 0
             run == RunLength(arr, 3, isDescending)
             made == IF isDescending
                     THEN Reverse(SubSeq(arr, 1, run)) \o SubSeq(arr, run + 1, Len(arr))
                     ELSE arr
         IN  BinaryInsertionSort(made, run + 1)

\* Some file of the enumeration makes the map callback throw.
getSortedPostsThrows(files) ==
    \E i \in 1..Len(getPostPaths(files)) : mapThrows(files, getPostPaths(files)[i])

\* getSortedPosts: the records of the enumerated files, sorted.
getSortedPosts(files) ==
    LET paths == getPostPaths(files)
    IN  sortPosts([i \in 1..Len(paths) |-> postOf(files, paths[i])])

\* --------------------------------------------------------------- the feed
url == "https://aazuspan.dev"

FeedPaths == {"rss.xml", "rss.json", "atom.xml"}

\* Seconds from the epoch to midnight UTC of an ISO calendar date.
EpochSeconds(s) ==
    CASE s = "2024-01-01" -> 19723 * 86400
      [] s = "2024-06-01" -> 19875 * 86400
      [] s = "2025-01-01" -> 20089 * 86400

\* A plausible slip: the date is built from its parts, new Date(y, m - 1, d),
\* which is midnight in the zone of the build machine (here UTC-5).
newDateLocal(value) ==
    IF value \in IsoDates
    THEN [valid |-> TRUE, time |-> EpochSeconds(value) + 5 * 3600]
    ELSE [valid |-> FALSE, time |-> 0]

\* new Date(value): a date-only ISO string is midnight UTC of that day; any
\* other string, and undefined, give an Invalid Date.
newDate(value) ==
    IF value \in IsoDates
    THEN [valid |-> TRUE, time |-> EpochSeconds(value)]
    ELSE [valid |-> FALSE, time |-> 0]

\* Date.prototype.toUTCString: "Invalid Date" for an Invalid Date, never throws.
toUTCString(d) ==
    IF d.valid THEN [text |-> "UTC", time |-> d.time]
    ELSE [text |-> "Invalid Date", time |-> 0]

\* Date.prototype.toISOString: throws a RangeError on an Invalid Date.
toISOStringThrows(d) == ~d.valid
toISOString(d) == [text |-> "ISO", time |-> d.time]

\* A plausible slip: the link is built without the /blog segment.
feedItemBareLink(post) ==
    [title |-> post.title,
     id |-> <<url, "/blog/">> \o post.id,
     link |-> <<url, "/">> \o post.id,
     description |-> post.summary,
     date |-> newDate(post.date)]

\* A plausible slip: the summary is given as the title and the title as the
\* description.
feedItemSwapped(post) ==
    [title |-> post.summary,
     id |-> <<url, "/blog/">> \o post.id,
     link |-> <<url, "/blog/">> \o post.id,
     description |-> post.title,
     date |-> newDate(post.date)]

\* The object generateRssFeed hands to feed.addItem for one post.
feedItem(post) ==
    [title |-> post.title,
     id |-> <<url, "/blog/">> \o post.id,
     link |-> <<url, "/blog/">> \o post.id,
     description |-> post.summary,
     date |-> newDate(post.date)]

\* A plausible slip: the items are added newest last.
addItemsReversed(list) == [i \in 1..Len(list) |-> feedItem(list[Len(list) + 1 - i])]

\* posts.forEach((post) => feed.addItem({...})): feed.items, in the order of
\* the list.
addItems(list) == [i \in 1..Len(list) |-> feedItem(list[i])]

\* feed.rss2(): one <item> per feed item, the date as toUTCString gives it.
rss2(items) ==
    [format |-> "rss2", build |-> "current",
     entries |-> [i \in 1..Len(items) |->
                     [title |-> items[i].title,
                      link |-> items[i].link,
                      guid |-> items[i].id,
                      description |-> items[i].description,
                      pubDate |-> toUTCString(items[i].date)]]]

\* feed.json1() and feed.atom1() format every date with toISOString.
isoFormatThrows(items) == \E i \in 1..Len(items) : toISOStringThrows(items[i].date)

\* feed.json1(): one element of items[] per feed item.
json1(items) ==
    [format |-> "json1", build |-> "current",
     entries |-> [i \in 1..Len(items) |->
                     [id |-> items[i].id,
                      url |-> items[i].link,
                      title |-> items[i].title,
                      summary |-> items[i].description,
                      date_modified |-> toISOString(items[i].date)]]]

\* feed.atom1(): one <entry> per feed item.
atom1(items) ==
    [format |-> "atom1", build |-> "current",
     entries |-> [i \in 1..Len(items) |->
                     [title |-> items[i].title,
                      id |-> items[i].id,
                      link |-> items[i].link,
                      summary |-> items[i].description,
                      updated |-> toISOString(items[i].date)]]]

\* new Date().getFullYear() at instant t.  The instants of the model count
\* from the first build, two to a year; years count from the first build's.
getFullYear(t) == t \div 2

\* The date-bearing channel metadata of a document written at instant t: the
\* copyright of config, `All rights reserved ${new Date().getFullYear()},
\* Aaron Zuspan`, and the build time that feed.rss2() and feed.atom1() put in
\* lastBuildDate and updated when config gives no `updated` (new Date()).
channelOf(format, t) ==
    IF format = "json1"
    THEN [title |-> "Blog - Aaron Zuspan"]
    ELSE [title |-> "Blog - Aaron Zuspan",
          copyright |-> <<"All rights reserved ", getFullYear(t), ", Aaron Zuspan">>,
          updated |-> t]

\* The document a serializer returns at instant t: entries and channel.
published(doc, t) == doc @@ [channel |-> channelOf(doc.format, t)]

\* A path of ./public with no file, and one holding an earlier build's feed,
\* whose one entry is of a post that is no longer there.
NoFile == [format |-> "none", build |-> "none", entries |-> <<>>, channel |-> <<>>]
StaleFile ==
    [format |-> "any", build |-> "previous",
     entries |-> <<[id |-> <<url, "/blog/", "old">>, link |-> <<url, "/blog/", "old">>]>>,
     channel |-> <<>>]

\* A file of ./public that is not a feed: the fallback thumbnail the post
\* records name.
OtherPath == "images/clouds.jpeg"
OtherFile == [format |-> "jpeg", build |-> "kept", entries |-> <<>>, channel |-> <<>>]

\* ./public before the first build: the image, and file at each feed path.
PublicDir(file) ==
    [f \in FeedPaths \cup {OtherPath} |-> IF f \in FeedPaths THEN file ELSE OtherFile]

\* A plausible slip: the new entries are added to those the file holds.
writeFileMerging(files, path, doc) ==
    [files EXCEPT ![path] = [doc EXCEPT !.entries = files[path].entries \o doc.entries]]

\* fs.writeFileSync(path, data): the file at path is replaced by data, every
\* other file is left as it is.
writeFileSync(files, path, doc) == [files EXCEPT ![path] = doc]

\* ------------------------------------------------------------ the state
VARIABLES
    dir,      \* the files of the posts directory, in readdirSync's order
    public,   \* the file at each feed path of ./public
    pc,       \* the statement of getStaticProps that runs next
    posts,    \* getStaticProps's local: what getSortedPosts returned
    feed,     \* feed.items of generateRssFeed
    promise,  \* the promise generateRssFeed returned: none, fulfilled, rejected
    error,    \* the error thrown during the build, or none
    result,   \* how getStaticProps ended: none, props, rejected
    now,      \* the instant new Date() gives during this build
    prior,    \* ./public as the build before this one left it
    builds,   \* the number of this build
    paths,    \* what getStaticPaths of /blog/[id] returned, or Pending
    colorMode,   \* useColorMode().colorMode
    container,   \* Utterance: the children of containerRef.current
    timers,      \* the browser's pending setTimeout callbacks
    copied,      \* CodeBlockHeader: the copied state
    activeTags,  \* Blog: the activeTags state
    map,         \* daylight hours: the script's `map`
    layers,      \* daylight hours: the layers on the map
    results,     \* daylight hours: innerHTML of #results
    form,        \* daylight hours: the values of #latitude, #longitude, #date
    events       \* the number of user events so far

\* The state of the pages in the browser.
page == <<colorMode, container, timers, copied, activeTags, map, layers, results, form,
          events>>

vars == <<dir, public, pc, posts, feed, promise, error, result, now, prior, builds,
          paths, page>>

\* The async getStaticPaths of /blog/[id] before it has returned.
Pending == [state |-> "pending"]

\* useRef(): containerRef.current before the component is mounted.
Null == "<null>"

\* `let map;`: no map object yet.
NoMap == <<>>

\* The pages before anything is mounted or clicked.
PageStart ==
    /\ colorMode = "light"
    /\ container = Null
    /\ timers = <<>>
    /\ copied = FALSE
    /\ activeTags = <<>>
    /\ map = NoMap
    /\ layers = <<>>
    /\ results = ""
    /\ form = [latitude |-> <<>>, longitude |-> <<>>, date |-> "2024-06-01"]
    /\ events = 0

\* The directories of n files.
RECURSIVE DirsOfLen(_)
DirsOfLen(n) ==
    IF n = 0 THEN {<<>>}
    ELSE {Append(d, f) : d \in DirsOfLen(n - 1), f \in FileChoices(n)}

Dirs == UNION {DirsOfLen(n) : n \in 0..MaxPosts}

\* Every string of at most n characters.
RECURSIVE StringsUpTo(_)
StringsUpTo(n) ==
    IF n = 0 THEN {<<>>}
    ELSE StringsUpTo(n - 1)
             \cup {Append(t, c) : t \in {u \in StringsUpTo(n - 1) : Len(u) = n - 1},
                                  c \in Chars}

\* One post whose tags field is any string of the bound, or absent.
TagDirs ==
    {<<[name |-> <<Stems[1], ".md">>, delim |-> "---",
        fields |-> [FullFields(1, d) EXCEPT !.tags = text]]>> :
         text \in StringsUpTo(MaxTagLen), d \in {DateStrings[1], DateStrings[4]}}
        \cup {<<[name |-> <<Stems[1], ".md">>, delim |-> "---",
                 fields |-> Without(FullFields(1, DateStrings[1]), "tags")]>>}

Start ==
    /\ public \in {PublicDir(NoFile), PublicDir(StaleFile)}
    /\ pc = "getSortedPosts"
    /\ posts = <<>>
    /\ feed = <<>>
    /\ promise = "none"
    /\ error = "none"
    /\ result = "none"
    /\ now = 0
    /\ prior = public
    /\ builds = 1
    /\ paths = Pending
    /\ PageStart

Init == dir \in Dirs /\ Start

InitTags == dir \in TagDirs /\ Start

\* const posts = getSortedPosts();  A throw rejects the promise of the async
\* getStaticProps, which ends the build.
GetSortedPosts ==
    /\ pc = "getSortedPosts"
    /\ IF getSortedPostsThrows(dir)
       THEN /\ error' = "TypeError"
            /\ result' = "rejected"
            /\ pc' = "halted"
            /\ UNCHANGED posts
       ELSE /\ posts' = getSortedPosts(dir)
            /\ pc' = "addItems"
            /\ UNCHANGED <<error, result>>
    /\ UNCHANGED <<paths, page, now, prior, builds, dir, public, feed, promise>>

\* generateRssFeed(posts), not awaited: its body runs to its end or to a throw
\* before getStaticProps goes on.  First new Feed(config) and the forEach.
AddItems ==
    /\ pc = "addItems"
    /\ feed' = addItems(posts)
    /\ pc' = "rss2"
    /\ UNCHANGED <<paths, page, now, prior, builds, dir, public, posts, promise, error, result>>

\* A throw inside the async generateRssFeed rejects its promise, which
\* nothing awaits or catches; control is back in getStaticProps.
Reject(e) ==
    /\ error' = e
    /\ promise' = "rejected"
    /\ pc' = "return"
    /\ UNCHANGED public

\* fs.writeFileSync("./public/rss.xml", feed.rss2()): the write replaces the
\* file, or throws and leaves it.
WriteRss2 ==
    /\ pc = "rss2"
    /\ \E ok \in BOOLEAN :
           IF ok
           THEN /\ public' = writeFileSync(public, "rss.xml", published(rss2(feed), now))
                /\ pc' = "json1"
                /\ UNCHANGED <<promise, error>>
           ELSE Reject("WriteError")
    /\ UNCHANGED <<paths, page, now, prior, builds, dir, posts, feed, result>>

\* fs.writeFileSync("./public/rss.json", feed.json1())
WriteJson1 ==
    /\ pc = "json1"
    /\ IF isoFormatThrows(feed)
       THEN Reject("RangeError")
       ELSE \E ok \in BOOLEAN :
                IF ok
                THEN /\ public' = writeFileSync(public, "rss.json", published(json1(feed), now))
                     /\ pc' = "atom1"
                     /\ UNCHANGED <<promise, error>>
                ELSE Reject("WriteError")
    /\ UNCHANGED <<paths, page, now, prior, builds, dir, posts, feed, result>>

\* fs.writeFileSync("./public/atom.xml", feed.atom1()), the last statement.
WriteAtom1 ==
    /\ pc = "atom1"
    /\ IF isoFormatThrows(feed)
       THEN Reject("RangeError")
       ELSE \E ok \in BOOLEAN :
                IF ok
                THEN /\ public' = writeFileSync(public, "atom.xml", published(atom1(feed), now))
                     /\ promise' = "fulfilled"
                     /\ pc' = "return"
                     /\ UNCHANGED error
                ELSE Reject("WriteError")
    /\ UNCHANGED <<paths, page, now, prior, builds, dir, posts, feed, result>>

\* return { props: { posts } }
Return ==
    /\ pc = "return"
    /\ result' = "props"
    /\ pc' = "done"
    /\ UNCHANGED <<paths, page, now, prior, builds, dir, public, posts, feed, promise, error>>

Next == GetSortedPosts \/ AddItems \/ WriteRss2 \/ WriteJson1 \/ WriteAtom1 \/ Return

Spec == Init /\ [][Next]_vars

\* The directories of n posts that have every field, with any date.
RECURSIVE FullDirsOfLen(_)
FullDirsOfLen(n) ==
    IF n = 0 THEN {<<>>}
    ELSE {Append(d, [name |-> <<Stems[n], ".md">>, delim |-> "---",
                     fields |-> FullFields(n, DateStrings[k])]) :
              d \in FullDirsOfLen(n - 1), k \in 1..Len(DateStrings)}

InitRebuild == dir \in UNION {FullDirsOfLen(n) : n \in 0..MaxPosts} /\ Start

\* The build command is run again, on the same post files, at the same
\* instant or a later one; the files of ./public are as the last build left
\* them.
Rebuild ==
    /\ pc \in {"done", "halted"}
    /\ builds < MaxBuilds
    /\ builds' = builds + 1
    /\ \E t \in now..MaxClock : now' = t
    /\ prior' = public
    /\ public' = [f \in DOMAIN public |->
                      IF public[f].build = "current"
                      THEN [public[f] EXCEPT !.build = "previous"]
                      ELSE public[f]]
    /\ pc' = "getSortedPosts"
    /\ posts' = <<>>
    /\ feed' = <<>>
    /\ promise' = "none"
    /\ error' = "none"
    /\ result' = "none"
    /\ UNCHANGED <<dir, paths, page>>

NextRebuild == Next \/ Rebuild

SpecRebuild == InitRebuild /\ [][NextRebuild]_vars

SpecTags == InitTags /\ [][Next]_vars

\* ------------------------------------------------- what the claims speak of
\* getSortedPosts has returned its list.
Returned == pc \notin {"getSortedPosts", "halted"}

\* getStaticProps has ended, one way or the other.
Ended == pc \in {"done", "halted"}

\* The feed paths written by this build.
Written == {f \in FeedPaths : public[f].build = "current"}

\* The Markdown files of the directory, parsed.
PostData == {matter(dir[i]) : i \in {j \in 1..Len(dir) : endsWithMd(dir[j].name)}}

\* The place of a post in the enumeration of the directory.
EnumIndex(post) ==
    CHOOSE i \in 1..Len(getPostPaths(dir)) : stripMd(getPostPaths(dir)[i]) = post.id

\* The unique id and the link of the i-th entry of a feed document.
EntryId(doc, i) ==
    IF doc.format = "rss2" THEN doc.entries[i].guid ELSE doc.entries[i].id
EntryLink(doc, i) ==
    IF doc.format = "json1" THEN doc.entries[i].url ELSE doc.entries[i].link

\* C1 (as claimed): the list getSortedPosts returns is in descending date
\* order: each record's date is greater than or equal to the next record's,
\* so that no record is listed before one of a later date.
C1_SortedDescending ==
    Returned =>
        \A i, j \in 1..Len(posts) :
            (i < j /\ posts[i].date # Undefined /\ posts[j].date # Undefined)
                => ~StrLess(posts[i].date, posts[j].date)

\* C2 (as claimed): the sort is stable on ties: two posts with equal dates
\* come out in the order of their enumeration.
C2_StableOnTies ==
    Returned =>
        \A i, j \in 1..Len(posts) :
            (i < j /\ posts[i].date # Undefined /\ posts[i].date = posts[j].date)
                => EnumIndex(posts[i]) < EnumIndex(posts[j])

\* C3: every feed file this build wrote holds exactly one entry per record of
\* the post list, the i-th entry being the i-th record's, and a fulfilled
\* generateRssFeed has written all three files.
C3_OneEntryPerPostInOrder ==
    /\ \A f \in Written :
           /\ Len(public[f].entries) = Len(posts)
           /\ \A i \in 1..Len(posts) :
                  EntryId(public[f], i) = <<url, "/blog/">> \o posts[i].id
    /\ promise = "fulfilled" => Written = FeedPaths

C3_Witness ==
    /\ pc = "done"
    /\ Written = FeedPaths
    /\ Len(posts) = 3
    /\ posts[1].date # posts[3].date
    /\ EnumIndex(posts[1]) # 1

\* C4: in every feed file this build wrote, each entry's unique id and its
\* link are the same string, the base URL followed by /blog/ and the post's
\* identifier; so the value is the same in all three formats.
C4_IdEqualsLink ==
    \A f \in Written :
        \A i \in 1..Len(public[f].entries) :
            /\ EntryId(public[f], i) = EntryLink(public[f], i)
            /\ EntryLink(public[f], i) = <<url, "/blog/">> \o posts[i].id

C4_Witness ==
    /\ Written = FeedPaths
    /\ Len(posts) >= 2
    /\ \A f \in FeedPaths : EntryLink(public[f], 2) = <<url, "/blog/", "b">>

\* C5 (as claimed): after a run, either all three feed files have been
\* written or none has.
C5_AllOrNothing == pc = "done" => (Written = {} \/ Written = FeedPaths)

\* C6 (as claimed): a post file whose metadata lacks title, date or summary
\* makes the build of its record fail with a MissingFieldError, and no record
\* of the index lacks a required field.
C6_MissingFieldRejected ==
    /\ \A i \in 1..Len(posts) :
           /\ posts[i].title # Undefined
           /\ posts[i].date # Undefined
           /\ posts[i].summary # Undefined
    /\ (pc # "getSortedPosts"
            /\ \E data \in PostData : {"title", "date", "summary"} \ DOMAIN data # {})
           => error = "MissingFieldError"

\* C7 (as claimed): when some post file's metadata lacks date, the build
\* halts and writes none of the three feed files.
C7_MissingDateHalts ==
    (Ended /\ \E data \in PostData : "date" \notin DOMAIN data)
        => (result = "rejected" /\ Written = {})

\* C8 (as claimed): an error raised while the posts are processed or the feed
\* is emitted halts the build: getStaticProps returns props only when nothing
\* failed, and then with one record per post file.
C8_ErrorsHaltBuild ==
    result = "props" => (error = "none" /\ Len(posts) = Len(getPostPaths(dir)))

\* C9 (as claimed): a date that is present but is no ISO-8601 calendar date
\* fails the build of the record with a DateFormatError, so that no such
\* record is in the sorted list or in the feed.
C9_BadDateRejected ==
    /\ \A i \in 1..Len(posts) :
           posts[i].date = Undefined \/ posts[i].date \in IsoDates
    /\ \A i \in 1..Len(feed) :
           posts[i].date = Undefined \/ feed[i].date.valid
    /\ (pc # "getSortedPosts"
            /\ \E data \in PostData : "date" \in DOMAIN data /\ data.date \notin IsoDates)
           => error = "DateFormatError"

\* The places of the commas of a string, and the k-th piece between them.
CommaPlaces(text) == {i \in 1..Len(text) : text[i] = ","}
PieceStart(text, k) ==
    IF k = 1 THEN 1
    ELSE 1 + CHOOSE c \in CommaPlaces(text) :
                 Cardinality({x \in CommaPlaces(text) : x < c}) = k - 2
PieceEnd(text, k) ==
    IF k = Cardinality(CommaPlaces(text)) + 1 THEN Len(text)
    ELSE (CHOOSE c \in CommaPlaces(text) :
              Cardinality({x \in CommaPlaces(text) : x < c}) = k - 1) - 1

\* The k-th piece without the spaces around it: from its first character
\* that is no space to its last.
TrimmedPiece(text, k) ==
    LET inked == {i \in PieceStart(text, k)..PieceEnd(text, k) : text[i] # " "}
    IN  IF inked = {} THEN <<>>
        ELSE SubSeq(text, CHOOSE i \in inked : \A j \in inked : i <= j,
                          CHOOSE i \in inked : \A j \in inked : j <= i)

\* C10: a record's tags are the pieces of the tags field between its commas,
\* each without the spaces around it, in the order of the field, duplicates
\* kept; "p, t" gives ["p", "t"].
C10_TagsSplitAndTrimmed ==
    Returned =>
        \A i \in 1..Len(posts) :
            LET text == readFile(dir, posts[i].id \o <<".md">>).fields.tags
            IN  /\ Len(posts[i].tags) = Cardinality(CommaPlaces(text)) + 1
                /\ \A k \in 1..Len(posts[i].tags) :
                       posts[i].tags[k] = TrimmedPiece(text, k)
                /\ text = <<"p", ",", " ", "t">> => posts[i].tags = << <<"p">>, <<"t">> >>

C10_Witness ==
    /\ Returned
    /\ Len(posts) = 1
    /\ dir[1].fields.tags = <<"p", ",", " ", "p">>
    /\ posts[1].tags = << <<"p">>, <<"p">> >>

\* C11 (as claimed): an empty or absent tags field gives a record with zero
\* tags, and the index is built without an error because of it.
C11_EmptyTagsGiveNoTags ==
    \A k \in 1..Len(dir) :
        (/\ pc # "getSortedPosts"
         /\ endsWithMd(dir[k].name)
         /\ dir[k].delim = "---"
         /\ ("tags" \notin DOMAIN dir[k].fields \/ dir[k].fields.tags = <<>>))
            => /\ pc # "halted"
               /\ \A i \in 1..Len(posts) :
                      posts[i].id = stripMd(dir[k].name) => posts[i].tags = <<>>

\* The metadata of the file a record was built from.
DataOf(post) == matter(readFile(dir, post.id \o <<".md">>))

\* C12 (as claimed): a record's thumbnail is the fallback path when the
\* metadata has no thumbnail, and the metadata's value, unchanged, when the
\* metadata supplies one.
C12_ThumbnailAsClaimed ==
    Returned =>
        \A i \in 1..Len(posts) :
            /\ posts[i].thumbnail # Undefined
            /\ posts[i].thumbnail =
                   IF "thumbnail" \in DOMAIN DataOf(posts[i])
                   THEN DataOf(posts[i]).thumbnail
                   ELSE "/images/clouds.jpeg"

\* C12 (amended): a record's thumbnail is never undefined; it is the fallback
\* path when the metadata has no thumbnail or an empty one, and the
\* metadata's value, unchanged, when that value is a non-empty string.
C12_ThumbnailOrFallback ==
    Returned =>
        \A i \in 1..Len(posts) :
            /\ posts[i].thumbnail # Undefined
            /\ posts[i].thumbnail =
                   IF /\ "thumbnail" \in DOMAIN DataOf(posts[i])
                      /\ DataOf(posts[i]).thumbnail # ""
                   THEN DataOf(posts[i]).thumbnail
                   ELSE "/images/clouds.jpeg"

C12_Witness ==
    /\ Returned
    /\ \E i, j \in 1..Len(posts) :
           /\ "thumbnail" \notin DOMAIN DataOf(posts[i])
           /\ posts[i].thumbnail = "/images/clouds.jpeg"
           /\ "thumbnail" \in DOMAIN DataOf(posts[j])
           /\ posts[j].thumbnail = "/images/own.png"

\* What a feed file holds, without the model's note of which build wrote it.
Bytes(doc) == [format |-> doc.format, entries |-> doc.entries, channel |-> doc.channel]

\* C13 (as claimed): a second run of the pipeline on unchanged post files
\* leaves feed files identical to those the run before it wrote.
C13_SameFeedTwice ==
    (/\ builds >= 2
     /\ pc = "done"
     /\ promise = "fulfilled"
     /\ \A f \in FeedPaths : prior[f].build = "current")
        => \A f \in FeedPaths : Bytes(public[f]) = Bytes(prior[f])

\* The same directory with other contents: each file keeps its name, its
\* delimiter, its date and the keys of its metadata, and has another title,
\* summary, tags and thumbnail.
OtherContents(files) ==
    [k \in 1..Len(files) |->
        [files[k] EXCEPT !.fields =
            [key \in DOMAIN files[k].fields |->
                CASE key = "date" -> files[k].fields.date
                  [] key = "title" -> Titles[Len(Titles) + 1 - k]
                  [] key = "summary" -> Summaries[Len(Summaries) + 1 - k]
                  [] key = "tags" -> <<"t", ",", "p">>
                  [] key = "thumbnail" -> "/images/other.png"]]]

\* The identifiers of a list of records, in the order of the list.
IdsOf(list) == [i \in 1..Len(list) |-> list[i].id]

\* C14: the order of the list getSortedPosts returns depends only on the date
\* and the place in the enumeration of each post: the same files with other
\* titles, summaries, tags and thumbnails come out in the same order.
C14_OrderFromDateAndPlace ==
    Returned => IdsOf(getSortedPosts(OtherContents(dir))) = IdsOf(posts)

C14_Witness ==
    /\ Returned
    /\ Len(posts) = 3
    /\ posts[1].date = posts[2].date
    /\ posts[2].date # posts[3].date
    /\ posts[1].date # Undefined
    /\ posts[3].date # Undefined
    /\ IdsOf(posts) # IdsOf([i \in 1..3 |-> [id |-> stripMd(getPostPaths(dir)[i])]])

\* The description of the i-th entry of a feed document.
EntryDescription(doc, i) ==
    IF doc.format = "rss2" THEN doc.entries[i].description ELSE doc.entries[i].summary

\* C15: in every feed file this build wrote, the entry of each post has the
\* record's title as its title and the record's summary as its description.
C15_EntryCarriesTitleAndSummary ==
    \A f \in Written :
        \A i \in 1..Len(public[f].entries) :
            /\ public[f].entries[i].title = posts[i].title
            /\ EntryDescription(public[f], i) = posts[i].summary

C15_Witness ==
    /\ Written = FeedPaths
    /\ Len(posts) >= 2
    /\ \A f \in FeedPaths :
           /\ public[f].entries[1].title = "B"
           /\ EntryDescription(public[f], 1) = "about B"
           /\ public[f].entries[2].title = "A"
           /\ EntryDescription(public[f], 2) = "about A"

\* The Markdown files of the directory other than the i-th all have a
\* recognized block with a tags field, so none of them stops the build.
OthersParse(i) ==
    \A j \in 1..Len(dir) :
        (j # i /\ endsWithMd(dir[j].name)) =>
            (dir[j].delim = "---" /\ "tags" \in DOMAIN dir[j].fields)

\* C17: a Markdown file with no metadata block is processed without error:
\* its metadata is the empty mapping and the build goes on past the index.
C17_NoBlockIsNotAnError ==
    \A i \in 1..Len(dir) :
        (/\ pc # "getSortedPosts"
         /\ endsWithMd(dir[i].name)
         /\ dir[i].delim = "none"
         /\ OthersParse(i))
            => (matter(dir[i]) = <<>> /\ pc # "halted" /\ error = "none")

\* C18: the records getSortedPosts returns have the file names without .md as
\* ids, no two records share an id, and no id is the empty string.
C18_IdsUniqueAndNonEmpty ==
    Returned =>
        /\ {posts[i].id : i \in 1..Len(posts)}
               = {stripMd(dir[j].name) : j \in {k \in 1..Len(dir) : endsWithMd(dir[k].name)}}
        /\ \A i, j \in 1..Len(posts) : posts[i].id = posts[j].id => i = j
        /\ \A i \in 1..Len(posts) : posts[i].id # <<>>

\* The same directory with every +++ block written as a --- block that
\* carries the same field values.
AsDashes(files) ==
    [i \in 1..Len(files) |->
        [files[i] EXCEPT !.delim = IF @ = "+++" THEN "---" ELSE @]]

\* C19: a Markdown file whose block is delimited by +++ lines is recognized,
\* and the index is the one the same fields in a --- block give.
C19_BothDialectsSameRecord ==
    \A i \in 1..Len(dir) :
        (/\ pc # "getSortedPosts"
         /\ endsWithMd(dir[i].name)
         /\ dir[i].delim = "+++"
         /\ OthersParse(i))
            => (pc # "halted" /\ posts = getSortedPosts(AsDashes(dir)))

\* C20: after a run of generateRssFeed that succeeded, each of the three feed
\* files is the one this build wrote and holds one entry per current post and
\* no other entry, whatever the path held before; every other file of
\* ./public is as it was, and no file has appeared or gone.
C20_FeedFilesReplaced ==
    promise = "fulfilled" =>
        /\ posts = getSortedPosts(dir)
        /\ \A f \in FeedPaths :
               /\ public[f].build = "current"
               /\ Len(public[f].entries) = Len(posts)
               /\ \A i \in 1..Len(posts) :
                      EntryId(public[f], i) = <<url, "/blog/">> \o posts[i].id
        /\ DOMAIN public = DOMAIN prior
        /\ \A f \in DOMAIN public \ FeedPaths : public[f] = prior[f]

C20_Witness ==
    /\ promise = "fulfilled"
    /\ \A f \in FeedPaths : prior[f] = StaleFile /\ public[f] # StaleFile
    /\ Len(posts) >= 2
    /\ public[OtherPath] = OtherFile

\* The publication timestamp of the i-th entry of a feed document.
EntryDate(doc, i) ==
    CASE doc.format = "rss2" -> doc.entries[i].pubDate
      [] doc.format = "json1" -> doc.entries[i].date_modified
      [] doc.format = "atom1" -> doc.entries[i].updated

\* C21: in every feed file this build wrote, the timestamp of the entry of a
\* post dated with a calendar date is that date, at midnight UTC.
C21_EntryDateIsMidnightUTC ==
    \A f \in Written :
        \A i \in 1..Len(public[f].entries) :
            posts[i].date \in IsoDates =>
                /\ EntryDate(public[f], i).text # "Invalid Date"
                /\ EntryDate(public[f], i).time = EpochSeconds(posts[i].date)
                /\ EntryDate(public[f], i).time % 86400 = 0

C21_Witness ==
    /\ Written = FeedPaths
    /\ Len(posts) >= 2
    /\ posts[1].date = "2025-01-01"
    /\ posts[2].date = "2024-06-01"
    /\ \A f \in FeedPaths : EntryDate(public[f], 1).time = 20089 * 86400

\* ------------------------------------------------ the pages in the browser
\* The site as a build of directory d that met no error leaves it: the state
\* in which the pages are served.
Served(d) ==
    LET list == getSortedPosts(d)
        items == addItems(list)
        p1 == writeFileSync(PublicDir(NoFile), "rss.xml", published(rss2(items), 0))
        p2 == writeFileSync(p1, "rss.json", published(json1(items), 0))
        p3 == writeFileSync(p2, "atom.xml", published(atom1(items), 0))
    IN  /\ dir = d
        /\ posts = list
        /\ feed = items
        /\ public = p3
        /\ prior = PublicDir(NoFile)
        /\ pc = "done"
        /\ promise = "fulfilled"
        /\ error = "none"
        /\ result = "props"
        /\ now = 0
        /\ builds = 1
        /\ paths = Pending

\* What the build leaves alone once the pages are served.
built == <<dir, public, pc, posts, feed, promise, error, result, now, prior, builds, paths>>

\* setTimeout(fn, delay): one more pending callback, delay ms from now.
setTimeout(ts, fn, arg, delay) == Append(ts, [fn |-> fn, arg |-> arg, left |-> delay])

\* The time to the next pending callback.
MinLeft(ts) == CHOOSE m \in {ts[i].left : i \in 1..Len(ts)} :
                   \A i \in 1..Len(ts) : m <= ts[i].left

\* The callback the browser runs next: the first of those that are due.
Due(ts) == {i \in 1..Len(ts) : ts[i].left = 0}
NextDue(ts) == CHOOSE i \in Due(ts) : \A j \in Due(ts) : i <= j
Remove(ts, i) == SubSeq(ts, 1, i - 1) \o SubSeq(ts, i + 1, Len(ts))

\* The pauses between two events that the model lets pass, in ms.
Pauses == {100, 300, 2000}

\* Time passes, up to the moment the next callback is due.
Elapse ==
    /\ timers # <<>>
    /\ \E d \in Pauses :
           /\ d <= MinLeft(timers)
           /\ timers' = [i \in 1..Len(timers) |-> [timers[i] EXCEPT !.left = @ - d]]
    /\ UNCHANGED <<built, colorMode, container, copied, activeTags, map, layers,
                   results, form, events>>

\* --- Utterance
\* The delay of the setTimeout in the effect, in ms.
UtteranceDelay == 300

\* The script element the effect creates for a color mode.
script(mode) == [src |-> "https://utteranc.es/client.js", theme |-> <<"github-", mode>>]

\* The effect of Utterance, which React runs on mount and after each change
\* of colorMode: the append is scheduled, then the container is emptied.
UtteranceEffect(mode) ==
    /\ timers' = setTimeout(timers, "appendChild", script(mode), UtteranceDelay)
    /\ container' = <<>>

\* The component mounts: containerRef.current is the div, the effect runs.
MountUtterance ==
    /\ container = Null
    /\ UtteranceEffect(colorMode)
    /\ UNCHANGED <<built, colorMode, copied, activeTags, map, layers, results, form, events>>

\* The reader switches the color mode; the effect runs again.
ToggleColorMode ==
    /\ container # Null
    /\ events < MaxEvents
    /\ events' = events + 1
    /\ colorMode' = IF colorMode = "light" THEN "dark" ELSE "light"
    /\ UtteranceEffect(colorMode')
    /\ UNCHANGED <<built, copied, activeTags, map, layers, results, form>>

\* () => { containerRef.current.appendChild(utterances); }
AppendScript ==
    /\ Due(timers) # {}
    /\ timers[NextDue(timers)].fn = "appendChild"
    /\ container' = Append(container, timers[NextDue(timers)].arg)
    /\ timers' = Remove(timers, NextDue(timers))
    /\ UNCHANGED <<built, colorMode, copied, activeTags, map, layers, results, form, events>>

InitUtterance == Served(<<>>) /\ PageStart

NextUtterance == MountUtterance \/ ToggleColorMode \/ Elapse \/ AppendScript

SpecUtterance == InitUtterance /\ [][NextUtterance]_vars

\* C22: whatever the color-mode changes and their timing, the container of
\* Utterance holds at most one utterances script element.
C22_OneCommentBox ==
    container # Null => Len(container) <= 1

\* --- Blog (the index page) and TagContainer
\* Array.prototype.includes
includes(list, x) == \E i \in 1..Len(list) : list[i] = x

\* shouldShowPost(tags, activeTags)
shouldShowPost(tags, active) ==
    \/ Len(active) = 0
    \/ Len(SelectSeq(tags, LAMBDA tag : includes(active, tag))) = Len(active)

\* posts.map((post) => post.tags).flat()
RECURSIVE flatTags(_)
flatTags(list) ==
    IF list = <<>> THEN <<>> ELSE Head(list).tags \o flatTags(Tail(list))

\* A plausible slip: the tags are spread without the Set.
newSetKeepsAll(list) == list

\* [...new Set(list)]: each value once, in the order of its first place.
RECURSIVE newSet(_)
newSet(list) ==
    IF list = <<>> THEN <<>>
    ELSE LET front == newSet(SubSeq(list, 1, Len(list) - 1))
             last == list[Len(list)]
         IN  IF includes(front, last) THEN front ELSE Append(front, last)

\* The UTF-16 code unit of a character of the tag strings.
CharCode(c) ==
    CASE c = " " -> 32
      [] c = "," -> 44
      [] c = "p" -> 112
      [] c = "t" -> 116

\* a < b on two strings, as the default comparator of sort() orders them: by
\* code units, a proper prefix first.
RECURSIVE TagLess(_, _)
TagLess(a, b) ==
    IF b = <<>> THEN FALSE
    ELSE IF a = <<>> THEN TRUE
    ELSE IF Head(a) # Head(b) THEN CharCode(Head(a)) < CharCode(Head(b))
    ELSE TagLess(Tail(a), Tail(b))

\* list.sort() with the default comparator, on strings: the comparator is a
\* total order, so every sorting method gives the same array; by insertion.
RECURSIVE sortStrings(_)
sortStrings(list) ==
    IF list = <<>> THEN <<>>
    ELSE LET rest == sortStrings(Tail(list))
             x == Head(list)
             k == Cardinality({i \in 1..Len(rest) : ~TagLess(x, rest[i])})
         IN  SubSeq(rest, 1, k) \o <<x>> \o SubSeq(rest, k + 1, Len(rest))

\* const uniqueTags = [...new Set(postTags)].sort()
uniqueTags(list) == sortStrings(newSet(flatTags(list)))

\* A plausible slip: the click adds the tag whether it is active or not.
onClickAlwaysAdds(tag, active) == Append(active, tag)

\* The onClick of TagButton: what it passes to setActiveTags.
onClick(tag, active) ==
    IF includes(active, tag)
    THEN SelectSeq(active, LAMBDA t : t # tag)
    ELSE Append(active, tag)

\* The reader clicks one of the tag buttons; React renders again before the
\* next event, so each click sees the current activeTags.
ClickTag ==
    /\ events < MaxEvents
    /\ events' = events + 1
    /\ \E i \in 1..Len(uniqueTags(posts)) :
           activeTags' = onClick(uniqueTags(posts)[i], activeTags)
    /\ UNCHANGED <<built, colorMode, container, timers, copied, map, layers, results, form>>

\* The posts directories behind the index page: up to MaxPosts posts with
\* valid dates, or one post with any tags string.
BlogDirs ==
    {d \in UNION {FullDirsOfLen(n) : n \in 0..MaxPosts} :
         \A i \in 1..Len(d) : d[i].fields.date \in IsoDates}
        \cup {<<[name |-> <<Stems[1], ".md">>, delim |-> "---",
                 fields |-> [FullFields(1, DateStrings[1]) EXCEPT !.tags = text]]>> :
                  text \in StringsUpTo(MaxTagLen)}

InitBlog == PageStart /\ \E d \in BlogDirs : Served(d)

NextBlog == ClickTag

SpecBlog == InitBlog /\ [][NextBlog]_vars

\* The values of a list.
Values(list) == {list[i] : i \in 1..Len(list)}

\* C23: a post of the index is shown exactly when every active tag is one of
\* its tags, whatever its tag list, duplicates included.
C23_ShownIffAllActiveTags ==
    \A i \in 1..Len(posts) :
        shouldShowPost(posts[i].tags, activeTags)
            <=> Values(activeTags) \subseteq Values(posts[i].tags)

\* A list with no value twice.
NoDuplicates(list) == \A i, j \in 1..Len(list) : list[i] = list[j] => i = j

\* C24: after any clicks on the tag buttons the active tags are displayed
\* tags, none twice; a click on an inactive tag adds that tag and no other, a
\* click on an active tag removes that tag and no other, and a second click
\* on the same tag gives the active set back.
C24_ClicksToggleTags ==
    /\ NoDuplicates(activeTags)
    /\ Values(activeTags) \subseteq Values(uniqueTags(posts))
    /\ \A tag \in Values(uniqueTags(posts)) :
           LET once == onClick(tag, activeTags)
               twice == onClick(tag, once)
           IN  /\ tag \notin Values(activeTags)
                      => Values(once) = Values(activeTags) \cup {tag}
               /\ tag \in Values(activeTags)
                      => Values(once) = Values(activeTags) \ {tag}
               /\ NoDuplicates(once)
               /\ Values(twice) = Values(activeTags)

C24_Witness ==
    /\ events = 3
    /\ Len(activeTags) = 1
    /\ Cardinality(Values(uniqueTags(posts))) >= 2

\* --- /blog/[id]
\* A plausible slip: the paths are made from every file of the directory.
getStaticPathsOfAllFiles(files) ==
    [paths |-> [i \in 1..Len(files) |-> [params |-> [id |-> stripMd(files[i].name)]]],
     fallback |-> FALSE]

\* getStaticPaths of /blog/[id]: one path per name getPostPaths gives.
getStaticPaths(files) ==
    LET names == getPostPaths(files)
    IN  [paths |-> [i \in 1..Len(names) |-> [params |-> [id |-> stripMd(names[i])]]],
         fallback |-> FALSE]

\* The build asks /blog/[id] for its paths, at any moment of the build of
\* the index page.
GetStaticPaths ==
    /\ paths = Pending
    /\ paths' = getStaticPaths(dir)
    /\ UNCHANGED <<page, dir, public, pc, posts, feed, promise, error, result, now,
                   prior, builds>>

NextSite == Next \/ GetStaticPaths

SpecSite == Init /\ [][NextSite]_vars

\* C25: the ids getStaticPaths gives for /blog/[id] are the ids of the records
\* getSortedPosts returned, so the link of every post on the index has a page.
C25_EveryListedPostHasAPage ==
    (Returned /\ paths # Pending) =>
        {paths.paths[i].params.id : i \in 1..Len(paths.paths)}
            = {posts[i].id : i \in 1..Len(posts)}

C25_Witness ==
    /\ Returned
    /\ paths # Pending
    /\ Len(posts) = 2
    /\ Len(dir) = 3
    /\ posts[1].id # paths.paths[1].params.id

\* C26: the tags offered for filtering are the tags of the posts, each once,
\* in ascending order: every tag of every post is offered and no other.
C26_TagListIsSortedUnion ==
    LET offered == uniqueTags(posts)
    IN  /\ Values(offered) = UNION {Values(posts[i].tags) : i \in 1..Len(posts)}
        /\ NoDuplicates(offered)
        /\ \A i, j \in 1..Len(offered) : i < j => TagLess(offered[i], offered[j])

C26_Witness ==
    /\ Len(posts) = 3
    /\ uniqueTags(posts) = << <<"p">>, <<"t">> >>
    /\ Len(flatTags(posts)) = 5
    /\ events = 1

\* --- CodeBlockHeader
\* The delay of the setTimeout in onCopy, in ms.
CopiedDelay == 2000

\* A plausible slip: the flag is set and no reset is scheduled.
onCopyWithoutReset(ts) == ts

\* The pending callbacks after onCopy: setTimeout(() => setCopied(false), 2000).
onCopy(ts) == setTimeout(ts, "setCopied", "false", CopiedDelay)

\* The reader clicks the copy button: CopyToClipboard calls onCopy.
CopyClick ==
    /\ events < MaxEvents
    /\ events' = events + 1
    /\ copied' = TRUE
    /\ timers' = onCopy(timers)
    /\ UNCHANGED <<built, colorMode, container, activeTags, map, layers, results, form>>

\* () => { setCopied(false); }
ResetCopied ==
    /\ Due(timers) # {}
    /\ timers[NextDue(timers)].fn = "setCopied"
    /\ copied' = FALSE
    /\ timers' = Remove(timers, NextDue(timers))
    /\ UNCHANGED <<built, colorMode, container, activeTags, map, layers, results, form, events>>

InitCodeBlock == Served(<<>>) /\ PageStart

NextCodeBlock == CopyClick \/ Elapse \/ ResetCopied

\* Time does not stop and the browser runs every callback that is due.
SpecCodeBlock ==
    InitCodeBlock /\ [][NextCodeBlock]_vars /\ WF_vars(Elapse) /\ WF_vars(ResetCopied)

\* C27: every copy click sets the copied flag and schedules its reset 2000 ms
\* later, and once the clicks have stopped the flag returns to false.
C27_CopiedFlagResets ==
    /\ [][events' = events + 1 =>
              /\ copied' = TRUE
              /\ Len(timers') = Len(timers) + 1
              /\ timers'[Len(timers')] = [fn |-> "setCopied", arg |-> "false", left |-> 2000]
              /\ SubSeq(timers', 1, Len(timers)) = timers]_vars
    /\ (copied = TRUE) ~> (copied = FALSE)
    /\ <>[](copied = FALSE)

C27_Witness ==
    /\ events = MaxEvents
    /\ copied = FALSE
    /\ timers = <<>>

\* --- the daylight-hours widget
\* The texts the reader may leave in #latitude and #longitude, and in #date.
FieldTexts ==
    {<<>>, <<"x", "4">>, <<"4", "5">>, <<" ", "-", "4">>, <<"4", ".", "5", "x">>}
DateTexts == {"2024-06-01", ""}

Digits == {"4", "5"}

\* The length of the run of digits at the start of str.
RECURSIVE DigitRun(_)
DigitRun(str) ==
    IF str # <<>> /\ Head(str) \in Digits THEN 1 + DigitRun(Tail(str)) ELSE 0

NaN == [nan |-> TRUE]

\* parseFloat(text): leading white space is skipped, then the longest prefix
\* that is a decimal literal (sign, digits, fraction) is the number; NaN when
\* that prefix has no digit.
parseFloat(text) ==
    LET str == trimStart(text)
        signed == str # <<>> /\ Head(str) \in {"-", "+"}
        body == IF signed THEN Tail(str) ELSE str
        whole == DigitRun(body)
        rest == SubSeq(body, whole + 1, Len(body))
        fraction == IF rest # <<>> /\ Head(rest) = "." THEN DigitRun(Tail(rest)) ELSE 0
    IN  IF whole + fraction = 0 THEN NaN
        ELSE [nan |-> FALSE,
              negative |-> signed /\ Head(str) = "-",
              whole |-> SubSeq(body, 1, whole),
              fraction |-> SubSeq(rest, 2, fraction + 1)]

isNaN(x) == x.nan

\* date.ordinal of DateTime.fromISO(text): NaN for a text that is no date.
ordinal(text) == IF text \in IsoDates THEN [nan |-> FALSE, doy |-> text] ELSE NaN

\* getLatitude(getDayLength(lat, doy), doy + 1): arithmetic, NaN exactly when
\* the ordinal is NaN (lat is a number here).
nextLatitude(lat, doy) == IF isNaN(doy) THEN NaN ELSE [nan |-> FALSE, after |-> lat]

\* A plausible slip: only the latitude is tested.
isIncompleteLatOnly(lat, lon) == isNaN(lat)

\* isNaN(lat) || isNaN(lon)
isIncomplete(lat, lon) == isNaN(lat) \/ isNaN(lon)

\* L.map('map') in the n-th call of compute(): a new map object, the next of
\* the page in a new #map div.
newMap(m, n) == IF m = NoMap THEN <<"L.Map", 1, n>> ELSE <<"L.Map", m[2] + 1, n>>

\* A plausible slip: a map is created on every call.
mapAlwaysNew(m, n) == newMap(m, n)

\* if (map == null) { ...; map = L.map('map'); }
mapOrNew(m, n) == IF m = NoMap THEN newMap(m, n) ELSE m

\* map.eachLayer((l) => l.remove()): no layer is left on the map.
eachLayerRemove(ls) == SelectSeq(ls, LAMBDA l : FALSE)

\* The layers on map m after generateMap in call number n: the earlier
\* layers are removed, then the tiles, the two markers and the dashed line
\* are added.  L.circleMarker throws on a NaN coordinate, which ends
\* generateMap there.
layersOf(ls, m, n, lat, lon, nextLat) ==
    LET layer(kind, at) == [kind |-> kind, at |-> at, on |-> m, call |-> n]
    IN  eachLayerRemove(ls)
            \o (IF isNaN(nextLat)
                THEN <<layer("tiles", <<>>), layer("today", <<lat, lon>>)>>
                ELSE <<layer("tiles", <<>>), layer("today", <<lat, lon>>),
                       layer("tomorrow", <<nextLat, lon>>),
                       layer("line", <<lat, lon, nextLat>>)>>)

Prompt == "Enter a latitude and longitude."

\* The reader, or setPosition, changes a field of the form.
EditForm ==
    /\ \/ \E text \in FieldTexts : form' = [form EXCEPT !.latitude = text]
       \/ \E text \in FieldTexts : form' = [form EXCEPT !.longitude = text]
       \/ \E text \in DateTexts : form' = [form EXCEPT !.date = text]
    /\ UNCHANGED <<built, colorMode, container, timers, copied, activeTags, map, layers,
                   results, events>>

\* compute(), called on submit.
Compute ==
    /\ events < MaxEvents
    /\ events' = events + 1
    /\ LET lat == parseFloat(form.latitude)
           lon == parseFloat(form.longitude)
           doy == ordinal(form.date)
       IN  IF isIncomplete(lat, lon)
           THEN /\ results' = Prompt
                /\ UNCHANGED <<map, layers>>
           ELSE /\ results' = "Today at"
                /\ map' = mapOrNew(map, events')
                /\ layers' = layersOf(layers, map', events', lat, lon,
                                      nextLatitude(lat, doy))
    /\ UNCHANGED <<built, colorMode, container, timers, copied, activeTags, form>>

InitDaylight == Served(<<>>) /\ PageStart

NextDaylight == EditForm \/ Compute

SpecDaylight == InitDaylight /\ [][NextDaylight]_vars

\* C28: a compute() with a latitude or longitude that is not a number shows
\* the prompt and leaves the map and its layers as they were.
C28_BadInputLeavesMap ==
    [][(/\ events' = events + 1
        /\ \/ isNaN(parseFloat(form.latitude))
           \/ isNaN(parseFloat(form.longitude)))
           => (results' = Prompt /\ map' = map /\ layers' = layers)]_vars

C28_Witness ==
    /\ results = Prompt
    /\ events >= 2
    /\ map # NoMap
    /\ Len(layers) = 4
    /\ isNaN(parseFloat(form.longitude))

\* C29: over any calls of compute() one Leaflet map is created at most; a
\* call that draws uses that map and leaves on it only the layers it added
\* itself, every earlier layer removed.
C29_OneMapReused ==
    /\ [](map # NoMap => map[2] = 1)
    /\ [](\A i \in 1..Len(layers) : layers[i].on = map /\ layers[i].call = layers[1].call)
    /\ [][(events' = events + 1 /\ results' # Prompt) =>
              /\ map # NoMap => map' = map
              /\ map' # NoMap
              /\ Len(layers') \in {2, 4}
              /\ \A i \in 1..Len(layers') :
                     layers'[i].on = map' /\ layers'[i].call = events']_vars

C29_Witness ==
    /\ map # NoMap
    /\ map[3] = 1
    /\ events = 3
    /\ Len(layers) = 4
    /\ layers[1].call = 3

====
